---------------------------- MODULE Spec2Model ----------------------------
(***************************************************************************)
(* A model of utils.py of the spelling-correction system: LexicalEntry,    *)
(* Sentence, Corpus (process_line, generate_test_cases) and group_n_words. *)
(*                                                                         *)
(* A Python str is a sequence of one-character strings; a Python list is a *)
(* sequence; Python's 0-based index k is position k + 1 of the sequence.   *)
(* A raw corpus line is held as the sequence of its maximal runs of        *)
(* non-whitespace characters (its chunks), which is all that               *)
(* line.strip()...split() reads of the whitespace.                         *)
(***************************************************************************)
EXTENDS Integers, Sequences, FiniteSets, TLC

VARIABLES
    entry, valid,                                   \* a LexicalEntry and the answer of isValidTest()
    sentence, n, output,                            \* group_n_words: arguments and result
    line, tokens, i, processed_tokens, pc, returned,\* process_line: argument, locals, position, outcome
    heap, sents, corpus, testCases, ret, nops       \* list objects, Sentence objects, a Corpus, last call

tokVars   == <<entry, valid>>
grpVars   == <<sentence, n, output>>
parseVars == <<line, tokens, i, processed_tokens, pc, returned>>
heapVars  == <<heap, sents, corpus, testCases, ret, nops>>
vars      == <<entry, valid, sentence, n, output, line, tokens, i, processed_tokens,
               pc, returned, heap, sents, corpus, testCases, ret, nops>>

-----------------------------------------------------------------------------
(* Bounds of the model.                                                    *)
MaxWordLen == 2      \* longest word or error string of a LexicalEntry drawn for isValidTest
MaxSeqLen  == 4      \* longest argument list of group_n_words
MaxN       == 3      \* largest window size of group_n_words
MaxItems   == 3      \* most words / annotation blocks on a corpus line
MaxSentLen == 2      \* longest Sentence drawn, or grown by append
MaxCorpus  == 2      \* most sentences of the corpus handed to generate_test_cases
MaxOps     == 2      \* most constructor / get / update / append calls of a run

-----------------------------------------------------------------------------
(* Python strings and lists.                                               *)

Min(a, b) == IF a < b THEN a ELSE b
Max(a, b) == IF a > b THEN a ELSE b

UpperChars == <<"A","B","C","D","E","F","G","H","I","J","K","L","M",
                "N","O","P","Q","R","S","T","U","V","W","X","Y","Z">>
LowerChars == <<"a","b","c","d","e","f","g","h","i","j","k","l","m",
                "n","o","p","q","r","s","t","u","v","w","x","y","z">>

\* the character class [a-zA-Z] of the regular expression of isValidTest
IsAsciiLetter(c) == \E k \in 1..26 : c = UpperChars[k] \/ c = LowerChars[k]

\* str.lower(), one character
LowerChar(c) == IF \E k \in 1..26 : c = UpperChars[k]
                THEN LowerChars[CHOOSE k \in 1..26 : c = UpperChars[k]]
                ELSE c

\* str.lower()
Lower(s) == [k \in 1..Len(s) |-> LowerChar(s[k])]

\* the characters process_line deletes from a line
Punctuation == {"\"", ",", ".", "!", "'", ":", ";"}

\* the chained str.replace(c, '') calls of process_line, on one chunk
RECURSIVE RemovePunctuation(_)
RemovePunctuation(s) ==
    IF s = <<>> THEN <<>>
    ELSE IF Head(s) \in Punctuation THEN RemovePunctuation(Tail(s))
         ELSE <<Head(s)>> \o RemovePunctuation(Tail(s))

\* seq[:stop], Python's slice with a stop only
PySliceTo(seq, stop) ==
    LET L == Len(seq)
        e == IF stop < 0 THEN Max(L + stop, 0) ELSE Min(stop, L)
    IN  SubSeq(seq, 1, e)

\* str.split(sep) with a one-character separator: empty pieces are kept
RECURSIVE SplitOn(_, _)
SplitOn(s, sep) ==
    IF \A k \in 1..Len(s) : s[k] # sep THEN <<s>>
    ELSE LET p == CHOOSE k \in 1..Len(s) : s[k] = sep /\ \A m \in 1..(k-1) : s[m] # sep
         IN  <<SubSeq(s, 1, p - 1)>> \o SplitOn(SubSeq(s, p + 1, Len(s)), sep)

\* str.split() without a separator: runs of whitespace separate, no empty piece
RECURSIVE SplitWhitespace(_)
SplitWhitespace(s) ==
    IF s = <<>> THEN <<>>
    ELSE IF Head(s) = " " THEN SplitWhitespace(Tail(s))
    ELSE LET stop == IF \E k \in 1..Len(s) : s[k] = " "
                     THEN CHOOSE k \in 1..Len(s) : s[k] = " " /\ \A m \in 1..(k-1) : s[m] # " "
                     ELSE Len(s) + 1
         IN  <<SubSeq(s, 1, stop - 1)>> \o SplitWhitespace(SubSeq(s, stop, Len(s)))

\* str.strip(): leading and trailing whitespace removed
RECURSIVE Strip(_)
Strip(s) ==
    IF s = <<>> THEN <<>>
    ELSE IF Head(s) = " " THEN Strip(Tail(s))
    ELSE IF s[Len(s)] = " " THEN Strip(SubSeq(s, 1, Len(s) - 1))
    ELSE s

\* all sequences over S of length at most k
SeqsUpTo(S, k) == UNION {[1..m -> S] : m \in 0..k}

-----------------------------------------------------------------------------
(* LexicalEntry.                                                           *)

LexicalEntry(word, error) == [word |-> word, error |-> error]

fixError(self) == LexicalEntry(self.word, <<>>)

hasError(self) == self.error # <<>>

\* the optimal-string-alignment distance pyxdameraulevenshtein computes:
\* insertions, deletions, substitutions and transpositions of adjacent characters
RECURSIVE dl_distance(_, _, _, _)
dl_distance(a, b, p, q) ==
    IF p = 0 THEN q
    ELSE IF q = 0 THEN p
    ELSE LET cost == IF a[p] = b[q] THEN 0 ELSE 1
             base == Min(Min(dl_distance(a, b, p - 1, q) + 1,
                             dl_distance(a, b, p, q - 1) + 1),
                         dl_distance(a, b, p - 1, q - 1) + cost)
         IN  IF p > 1 /\ q > 1 /\ a[p] = b[q - 1] /\ a[p - 1] = b[q]
             THEN Min(base, dl_distance(a, b, p - 2, q - 2) + 1)
             ELSE base

damerau_levenshtein_distance(a, b) == dl_distance(a, b, Len(a), Len(b))

\* re.match('.*[^a-zA-Z].*', s): some character of s is not an ASCII letter.
\* ('.' does not match a newline, but the first non-letter of s is matched by
\* the class itself with only letters before it.)
MatchesNonAlpha(s) == \E k \in 1..Len(s) : ~IsAsciiLetter(s[k])

\* mutant: the regular expression is tried on the error only
isValidTest_wordUnchecked(self) ==
    IF ~hasError(self) THEN FALSE
    ELSE IF damerau_levenshtein_distance(self.word, self.error) > 1 THEN FALSE
    ELSE IF MatchesNonAlpha(self.error) THEN FALSE
    ELSE TRUE

isValidTest(self) ==
    IF ~hasError(self) THEN FALSE
    ELSE IF damerau_levenshtein_distance(self.word, self.error) > 1 THEN FALSE
    ELSE IF MatchesNonAlpha(self.word) \/ MatchesNonAlpha(self.error) THEN FALSE
    ELSE TRUE

-----------------------------------------------------------------------------
(* Values of the variables a specification does not use.                   *)

TokIdle   == entry = LexicalEntry(<<>>, <<>>) /\ valid = "unset"
GrpIdle   == sentence = <<>> /\ n = 1 /\ output = [done |-> FALSE, val |-> <<>>]
ParseIdle == /\ line = <<>> /\ tokens = <<>> /\ i = 0 /\ processed_tokens = <<>>
             /\ pc = "idle" /\ returned = "unset"
HeapIdle  == /\ heap = <<>> /\ sents = <<>> /\ corpus = <<>> /\ testCases = <<>>
             /\ ret = [kind |-> "none", val |-> LexicalEntry(<<>>, <<>>), neg |-> FALSE]
             /\ nops = 0

-----------------------------------------------------------------------------
(* SpecToken: isValidTest() and fixError() on every LexicalEntry whose     *)
(* word and error are strings over TokenChars of length <= MaxWordLen.     *)

TokenChars == {"a", "b", "1"}
Words      == SeqsUpTo(TokenChars, MaxWordLen)

InitToken ==
    /\ entry \in {LexicalEntry(w, e) : w \in Words, e \in Words}
    /\ valid = "unset"
    /\ GrpIdle /\ ParseIdle /\ HeapIdle

CallIsValidTest ==
    /\ valid = "unset"
    /\ valid' = IF isValidTest(entry) THEN "True" ELSE "False"
    /\ UNCHANGED <<entry, grpVars, parseVars, heapVars>>

CallFixError ==
    /\ valid = "unset"
    /\ hasError(entry)
    /\ entry' = fixError(entry)
    /\ UNCHANGED <<valid, grpVars, parseVars, heapVars>>

NextToken == CallIsValidTest \/ CallFixError

SpecToken == InitToken /\ [][NextToken]_vars

-----------------------------------------------------------------------------
(* group_n_words.                                                          *)

\* an element of the argument list: a str, or an object with a word attribute
StrElem(w) == [type |-> "str", str |-> w]
ObjElem(w) == [type |-> "object", obj |-> LexicalEntry(w, <<>>)]

\* the word form the inner loop adds to cart for one element
WordForm(x) == IF x.type = "str" THEN x.str ELSE x.obj.word

\* the inner while loop: cart after k has run from k0 up to j + n or len(sentence)
RECURSIVE InnerLoop(_, _, _, _, _)
InnerLoop(sent, j, nn, k, cart) ==
    IF k < j + nn /\ k < Len(sent)
    THEN InnerLoop(sent, j, nn, k + 1, cart \o WordForm(sent[k + 1]) \o <<" ">>)
    ELSE cart

\* mutant: the short trailing groups are not cut off
group_n_words_uncut(sent, nn) ==
    [j \in 1..Len(sent) |-> Strip(InnerLoop(sent, j - 1, nn, j - 1, <<>>))]

group_n_words(sent, nn) ==
    LET out == [j \in 1..Len(sent) |-> Strip(InnerLoop(sent, j - 1, nn, j - 1, <<>>))]
    IN  PySliceTo(out, -(nn - 1))

GroupWords == {<<"a">>, <<"b", "c">>}
GroupElems == {StrElem(w) : w \in GroupWords} \cup {ObjElem(w) : w \in GroupWords}

InitGroup ==
    /\ sentence \in SeqsUpTo(GroupElems, MaxSeqLen)
    /\ n \in 1..MaxN
    /\ output = [done |-> FALSE, val |-> <<>>]
    /\ TokIdle /\ ParseIdle /\ HeapIdle

CallGroupNWords ==
    /\ ~output.done
    /\ output' = [done |-> TRUE, val |-> group_n_words(sentence, n)]
    /\ UNCHANGED <<sentence, n, tokVars, parseVars, heapVars>>

NextGroup == CallGroupNWords

SpecGroup == InitGroup /\ [][NextGroup]_vars

-----------------------------------------------------------------------------
(* Corpus.process_line.                                                    *)

ERR_OPEN  == <<"<", "e", "r", "r">>                 \* '<err'
ERR_CLOSE == <<"<", "/", "e", "r", "r", ">">>       \* '</err>'
TARGET_EQ == <<"t", "a", "r", "g", "e", "t", "=">>  \* 'target='
START_SYM == <<"<", "s", ">">>                      \* '<s>'
END_SYM   == <<"<", "/", "s", ">">>                 \* '</s>'

\* tokens[k], k a Python index
At(toks, k) == toks[k + 1]

RECURSIVE DropEmpty(_)
DropEmpty(ss) ==
    IF ss = <<>> THEN <<>>
    ELSE IF Head(ss) = <<>> THEN DropEmpty(Tail(ss))
         ELSE <<Head(ss)>> \o DropEmpty(Tail(ss))

\* mutant: the line is not lowercased
NormalizeLine_caseKept(chunks) ==
    DropEmpty([k \in 1..Len(chunks) |-> RemovePunctuation(chunks[k])])

\* line.strip().lower().replace(...)...  followed by line.split(): the tokens
NormalizeLine(chunks) ==
    DropEmpty([k \in 1..Len(chunks) |-> RemovePunctuation(Lower(chunks[k]))])

\* line == '' after the normalisation. The line is stripped before the
\* punctuation is deleted, so whitespace between two chunks survives even
\* when both chunks are deleted.
IsBlankLine(chunks) ==
    \/ Len(chunks) = 0
    \/ Len(chunks) = 1 /\ RemovePunctuation(Lower(chunks[1])) = <<>>

\* targ.split('=')[1][:-1], defined when the target token holds a '='
CorrectToken(targ) == PySliceTo(SplitOn(targ, "=")[2], -1)

\* mutant: the test of tokens[i + 3] is inverted
AnnotationEmit_inverted(toks, k) ==
    IF k + 1 >= Len(toks) THEN [raises |-> TRUE, entries |-> <<>>]
    ELSE IF Len(SplitOn(At(toks, k + 1), "=")) < 2 THEN [raises |-> TRUE, entries |-> <<>>]
    ELSE LET correct_token        == CorrectToken(At(toks, k + 1))
             correct_token_splits == SplitWhitespace(correct_token)
         IN  IF Len(correct_token_splits) > 2
             THEN [raises |-> FALSE,
                   entries |-> [m \in 1..Len(correct_token_splits) |->
                                   LexicalEntry(correct_token_splits[m], <<>>)]]
             ELSE IF k + 3 >= Len(toks) THEN [raises |-> TRUE, entries |-> <<>>]
             ELSE IF At(toks, k + 3) = ERR_CLOSE
                  THEN [raises |-> FALSE, entries |-> <<LexicalEntry(correct_token, <<>>)>>]
                  ELSE [raises |-> FALSE,
                        entries |-> <<LexicalEntry(correct_token, At(toks, k + 2))>>]

\* the '<err' branch up to the append: the entries it appends, or IndexError
\* (tokens[i + 1], targ_splits[1] or tokens[i + 3] out of range)
AnnotationEmit(toks, k) ==
    IF k + 1 >= Len(toks) THEN [raises |-> TRUE, entries |-> <<>>]
    ELSE IF Len(SplitOn(At(toks, k + 1), "=")) < 2 THEN [raises |-> TRUE, entries |-> <<>>]
    ELSE LET correct_token        == CorrectToken(At(toks, k + 1))
             correct_token_splits == SplitWhitespace(correct_token)
         IN  IF Len(correct_token_splits) > 2
             THEN [raises |-> FALSE,
                   entries |-> [m \in 1..Len(correct_token_splits) |->
                                   LexicalEntry(correct_token_splits[m], <<>>)]]
             ELSE IF k + 3 >= Len(toks) THEN [raises |-> TRUE, entries |-> <<>>]
             ELSE IF At(toks, k + 3) # ERR_CLOSE
                  THEN [raises |-> FALSE, entries |-> <<LexicalEntry(correct_token, <<>>)>>]
                  ELSE [raises |-> FALSE,
                        entries |-> <<LexicalEntry(correct_token, At(toks, k + 2))>>]

\* whether tokens[i:] holds '</err>' (else .index raises ValueError)
HasClose(toks, k) == \E m \in k..(Len(toks) - 1) : At(toks, m) = ERR_CLOSE

\* tokens[i:].index('</err>')
CloseOffset(toks, k) ==
    (CHOOSE m \in k..(Len(toks) - 1) :
        At(toks, m) = ERR_CLOSE /\ \A m2 \in k..(m - 1) : At(toks, m2) # ERR_CLOSE) - k

\* lines 272-282: normalise, return None for a blank line, else start the scan
Begin ==
    /\ pc = "start"
    /\ IF IsBlankLine(line)
       THEN /\ pc' = "done"
            /\ returned' = "None"
            /\ UNCHANGED <<tokens, i, processed_tokens>>
       ELSE /\ tokens' = NormalizeLine(line)
            /\ processed_tokens' = <<LexicalEntry(START_SYM, <<>>)>>
            /\ i' = 0
            /\ pc' = "loop"
            /\ UNCHANGED returned
    /\ UNCHANGED <<line, tokVars, grpVars, heapVars>>

\* lines 302-304: a regular word
ScanWord ==
    /\ pc = "loop"
    /\ i < Len(tokens)
    /\ At(tokens, i) # ERR_OPEN
    /\ processed_tokens' = Append(processed_tokens, LexicalEntry(At(tokens, i), <<>>))
    /\ i' = i + 1
    /\ UNCHANGED <<line, tokens, pc, returned, tokVars, grpVars, heapVars>>

\* lines 286-301: an annotation
ScanAnnotation ==
    /\ pc = "loop"
    /\ i < Len(tokens)
    /\ At(tokens, i) = ERR_OPEN
    /\ LET emit == AnnotationEmit(tokens, i)
       IN  IF emit.raises
           THEN /\ pc' = "raised"
                /\ returned' = "IndexError"
                /\ UNCHANGED <<i, processed_tokens>>
           ELSE /\ processed_tokens' = processed_tokens \o emit.entries
                /\ IF HasClose(tokens, i)
                   THEN /\ i' = i + CloseOffset(tokens, i) + 1
                        /\ UNCHANGED <<pc, returned>>
                   ELSE /\ pc' = "raised"
                        /\ returned' = "ValueError"
                        /\ UNCHANGED i
    /\ UNCHANGED <<line, tokens, tokVars, grpVars, heapVars>>

\* lines 306-307: the end symbol, and the Sentence is returned
Finish ==
    /\ pc = "loop"
    /\ i >= Len(tokens)
    /\ processed_tokens' = Append(processed_tokens, LexicalEntry(END_SYM, <<>>))
    /\ pc' = "done"
    /\ returned' = "Sentence"
    /\ UNCHANGED <<line, tokens, i, tokVars, grpVars, heapVars>>

\* The lines drawn: up to MaxItems items, each a plain word, a chunk of
\* punctuation, an annotation block, or a piece of a malformed block.
Target(w)     == TARGET_EQ \o w \o <<">">>
LineWords     == {<<"a">>, <<"B">>}
LineTargets   == {<<"a">>, <<"A", "b">>}
LineItems ==
    {<<w>> : w \in LineWords}
    \cup {<< <<".">> >>, << <<"b", ",">> >>}
    \cup {<<ERR_OPEN, Target(w), <<"b">>, ERR_CLOSE>> : w \in LineTargets}
    \cup {<<ERR_OPEN, Target(<<"a">>), ERR_CLOSE>>}
    \cup {<<ERR_OPEN, TARGET_EQ \o <<"a", "b">>, <<"b">>, <<"a", ">">>, <<"b">>, ERR_CLOSE>>}
    \cup {<<ERR_OPEN, Target(<<>>), <<"a">>, ERR_CLOSE>>}
    \cup {<<ERR_OPEN>>, <<ERR_OPEN, Target(<<"a">>)>>, <<ERR_CLOSE>>}

RECURSIVE Flatten(_)
Flatten(items) == IF items = <<>> THEN <<>> ELSE Head(items) \o Flatten(Tail(items))

InitParse ==
    /\ line \in {Flatten(items) : items \in SeqsUpTo(LineItems, MaxItems)}
    /\ tokens = <<>> /\ i = 0 /\ processed_tokens = <<>>
    /\ pc = "start" /\ returned = "unset"
    /\ TokIdle /\ GrpIdle /\ HeapIdle

NextParse == Begin \/ ScanWord \/ ScanAnnotation \/ Finish

SpecParse == InitParse /\ [][NextParse]_vars

-----------------------------------------------------------------------------
(* Sentence and Corpus.generate_test_cases, on a store of objects.         *)
(* heap[l] is the content of list object l; sents[s] is Sentence object s, *)
(* whose data attribute refers to a list object (src records the Sentence  *)
(* it was constructed from, 0 for none: bookkeeping for the properties).   *)
(* The operators take and return a store st = [heap, sents, tests].        *)

Store(h, ss, ts) == [heap |-> h, sents |-> ss, tests |-> ts]

\* self.data of Sentence s
Data(st, s) == st.heap[st.sents[s].data]

ArgNone         == [kind |-> "None", id |-> 0]
ArgList(l)      == [kind |-> "list", id |-> l]
ArgSentence(s)  == [kind |-> "Sentence", id |-> s]

\* mutant: construction from a Sentence keeps a reference to its list
SentenceInit_aliased(st, arg) ==
    IF arg.kind = "None"
    THEN [st EXCEPT !.heap = Append(@, <<>>),
                    !.sents = Append(@, [data |-> Len(st.heap) + 1, src |-> 0])]
    ELSE IF arg.kind = "list"
    THEN [st EXCEPT !.heap = Append(@, st.heap[arg.id]),
                    !.sents = Append(@, [data |-> Len(st.heap) + 1, src |-> 0])]
    ELSE [st EXCEPT !.sents = Append(@, [data |-> st.sents[arg.id].data, src |-> arg.id])]

\* Sentence.__init__: the new Sentence is the last of st.sents
SentenceInit(st, arg) ==
    IF arg.kind = "None"
    THEN [st EXCEPT !.heap = Append(@, <<>>),
                    !.sents = Append(@, [data |-> Len(st.heap) + 1, src |-> 0])]
    ELSE IF arg.kind = "list"
    THEN [st EXCEPT !.heap = Append(@, st.heap[arg.id]),
                    !.sents = Append(@, [data |-> Len(st.heap) + 1, src |-> 0])]
    ELSE [st EXCEPT !.heap = Append(@, Data(st, arg.id)),
                    !.sents = Append(@, [data |-> Len(st.heap) + 1, src |-> arg.id])]

\* mutant: only 0 <= k < len is accepted
InBounds_nonNegative(len, k) == 0 <= k /\ k < len

\* whether list[k] is defined for a list of length len (else IndexError)
InBounds(len, k) == -len <= k /\ k < len

\* the position list[k] addresses
Position(len, k) == IF k < 0 THEN len + k + 1 ELSE k + 1

\* Sentence.get(i), in bounds
SentenceGet(st, s, k) == Data(st, s)[Position(Len(Data(st, s)), k)]

\* Sentence.update(i, lexical_entry), in bounds
SentenceUpdate(st, s, k, e) ==
    [st EXCEPT !.heap[st.sents[s].data][Position(Len(Data(st, s)), k)] = e]

\* Sentence.append(lexical_entry)
SentenceAppend(st, s, e) == [st EXCEPT !.heap[st.sents[s].data] = Append(@, e)]

RECURSIVE AppendAll(_, _, _)
AppendAll(st, s, es) ==
    IF es = <<>> THEN st ELSE AppendAll(SentenceAppend(st, s, Head(es)), s, Tail(es))

\* mutant: the entries are appended as they are
clean_sentence_errorsKept(st, s) ==
    AppendAll(SentenceInit(st, ArgNone), Len(st.sents) + 1, Data(st, s))

\* Sentence.clean_sentence(): the new Sentence is the last of the result's sents
clean_sentence(st, s) ==
    AppendAll(SentenceInit(st, ArgNone), Len(st.sents) + 1,
              [k \in 1..Len(Data(st, s)) |-> fixError(Data(st, s)[k])])

\* the inner loop of generate_test_cases from index k, clean being clean_sentence
RECURSIVE TestCasesOfSentence(_, _, _, _)
TestCasesOfSentence(st, s, clean, k) ==
    IF k >= Len(Data(st, s)) THEN st
    ELSE LET lexical_entry_i == SentenceGet(st, s, k)
         IN  IF hasError(lexical_entry_i) /\ isValidTest(lexical_entry_i)
             THEN LET st1 == SentenceInit(st, ArgSentence(clean))
                      testSentence == Len(st1.sents)
                      st2 == SentenceUpdate(st1, testSentence, k, lexical_entry_i)
                      st3 == [st2 EXCEPT !.tests = Append(@, testSentence)]
                  IN  TestCasesOfSentence(st3, s, clean, k + 1)
             ELSE TestCasesOfSentence(st, s, clean, k + 1)

\* the outer loop of generate_test_cases from the m-th sentence of the corpus
RECURSIVE generate_test_cases(_, _, _)
generate_test_cases(st, corp, m) ==
    IF m > Len(corp) THEN st
    ELSE LET st1 == clean_sentence(st, corp[m])
         IN  generate_test_cases(TestCasesOfSentence(st1, corp[m], Len(st1.sents), 0),
                                 corp, m + 1)

NoEntry == LexicalEntry(<<>>, <<>>)
Returned(kind, val, neg) == [kind |-> kind, val |-> val, neg |-> neg]

\* Corpus.generate_test_cases()
GenerateTestCases ==
    /\ nops < MaxOps
    /\ testCases = <<>>
    /\ LET st == generate_test_cases(Store(heap, sents, <<>>), corpus, 1)
       IN  /\ heap' = st.heap
           /\ sents' = st.sents
           /\ testCases' = st.tests
    /\ ret' = Returned("testCases", NoEntry, FALSE)
    /\ nops' = nops + 1
    /\ UNCHANGED <<corpus, tokVars, grpVars, parseVars>>

\* the entries of the corpora drawn: no error, an eligible error, an error
\* with a digit
CorpusEntries == {LexicalEntry(<<"c">>, <<>>), LexicalEntry(<<"a">>, <<"b">>),
                  LexicalEntry(<<"a", "b">>, <<"a", "1">>)}

InitCorpus ==
    /\ heap \in SeqsUpTo(SeqsUpTo(CorpusEntries, MaxSentLen), MaxCorpus)
    /\ sents = [k \in 1..Len(heap) |-> [data |-> k, src |-> 0]]
    /\ corpus = [k \in 1..Len(heap) |-> k]
    /\ testCases = <<>>
    /\ ret = Returned("none", NoEntry, FALSE)
    /\ nops = 0
    /\ TokIdle /\ GrpIdle /\ ParseIdle

NextCorpus == GenerateTestCases

SpecCorpus == InitCorpus /\ [][NextCorpus]_vars

\* Sentence(), Sentence(list), Sentence(sentence), get, update, append and
\* generate_test_cases on the objects of a run, at most MaxOps calls
Indexes    == (-(MaxSentLen + 1))..(MaxSentLen + 1)
CallEntry  == LexicalEntry(<<"b">>, <<>>)

NewSentence ==
    /\ nops < MaxOps
    /\ LET st == SentenceInit(Store(heap, sents, testCases), ArgNone)
       IN  heap' = st.heap /\ sents' = st.sents
    /\ ret' = Returned("Sentence", NoEntry, FALSE)
    /\ nops' = nops + 1
    /\ UNCHANGED <<corpus, testCases, tokVars, grpVars, parseVars>>

SentenceFromList(s) ==
    /\ nops < MaxOps
    /\ LET st == SentenceInit(Store(heap, sents, testCases), ArgList(sents[s].data))
       IN  heap' = st.heap /\ sents' = st.sents
    /\ ret' = Returned("Sentence", NoEntry, FALSE)
    /\ nops' = nops + 1
    /\ UNCHANGED <<corpus, testCases, tokVars, grpVars, parseVars>>

SentenceFromSentence(s) ==
    /\ nops < MaxOps
    /\ LET st == SentenceInit(Store(heap, sents, testCases), ArgSentence(s))
       IN  heap' = st.heap /\ sents' = st.sents
    /\ ret' = Returned("Sentence", NoEntry, FALSE)
    /\ nops' = nops + 1
    /\ UNCHANGED <<corpus, testCases, tokVars, grpVars, parseVars>>

GetCall(s, k) ==
    /\ nops < MaxOps
    /\ ret' = IF InBounds(Len(heap[sents[s].data]), k)
              THEN Returned("entry", SentenceGet(Store(heap, sents, testCases), s, k), k < 0)
              ELSE Returned("IndexError", NoEntry, k < 0)
    /\ nops' = nops + 1
    /\ UNCHANGED <<heap, sents, corpus, testCases, tokVars, grpVars, parseVars>>

UpdateCall(s, k, e) ==
    /\ nops < MaxOps
    /\ IF InBounds(Len(heap[sents[s].data]), k)
       THEN /\ heap' = SentenceUpdate(Store(heap, sents, testCases), s, k, e).heap
            /\ ret' = Returned("None", NoEntry, k < 0)
       ELSE /\ heap' = heap
            /\ ret' = Returned("IndexError", NoEntry, k < 0)
    /\ nops' = nops + 1
    /\ UNCHANGED <<sents, corpus, testCases, tokVars, grpVars, parseVars>>

AppendCall(s, e) ==
    /\ nops < MaxOps
    /\ Len(heap[sents[s].data]) < MaxSentLen
    /\ heap' = SentenceAppend(Store(heap, sents, testCases), s, e).heap
    /\ ret' = Returned("None", NoEntry, FALSE)
    /\ nops' = nops + 1
    /\ UNCHANGED <<sents, corpus, testCases, tokVars, grpVars, parseVars>>

SentenceEntries == {LexicalEntry(<<"c">>, <<>>), LexicalEntry(<<"a">>, <<"b">>)}

Init ==
    /\ heap \in {<<d>> : d \in SeqsUpTo(SentenceEntries, MaxSentLen)}
    /\ sents = <<[data |-> 1, src |-> 0]>>
    /\ corpus = <<1>>
    /\ testCases = <<>>
    /\ ret = Returned("none", NoEntry, FALSE)
    /\ nops = 0
    /\ TokIdle /\ GrpIdle /\ ParseIdle

Next ==
    \/ NewSentence
    \/ \E s \in 1..Len(sents) : SentenceFromList(s)
    \/ \E s \in 1..Len(sents) : SentenceFromSentence(s)
    \/ \E s \in 1..Len(sents), k \in Indexes : GetCall(s, k)
    \/ \E s \in 1..Len(sents), k \in Indexes : UpdateCall(s, k, CallEntry)
    \/ \E s \in 1..Len(sents) : AppendCall(s, CallEntry)
    \/ GenerateTestCases

Spec == Init /\ [][Next]_vars

-----------------------------------------------------------------------------
(* Properties of isValidTest (SpecToken).                                  *)

\* s matches ^[a-zA-Z]+$
MatchesAlphaPlus(s) == s # <<>> /\ \A k \in 1..Len(s) : IsAsciiLetter(s[k])

\* s matches ^[a-zA-Z]*$
MatchesAlphaStar(s) == \A k \in 1..Len(s) : IsAsciiLetter(s[k])

Without(s, k) == SubSeq(s, 1, k - 1) \o SubSeq(s, k + 1, Len(s))

\* b is a, or a after one insertion, deletion, substitution or transposition of
\* two adjacent characters
WithinOneEdit(a, b) ==
    \/ a = b
    \/ Len(a) = Len(b) /\ Cardinality({k \in 1..Len(a) : a[k] # b[k]}) = 1
    \/ Len(a) = Len(b) /\ \E k \in 1..(Len(a) - 1) :
           b = [a EXCEPT ![k] = a[k + 1], ![k + 1] = a[k]]
    \/ Len(a) = Len(b) + 1 /\ \E k \in 1..Len(a) : Without(a, k) = b
    \/ Len(b) = Len(a) + 1 /\ \E k \in 1..Len(b) : Without(b, k) = a

\* C6 as stated: a token isValidTest() accepts has a non-empty error within one
\* edit of its word, and word and error both match ^[a-zA-Z]+$.
C6_AsStated ==
    valid = "True" =>
        /\ entry.error # <<>>
        /\ WithinOneEdit(entry.word, entry.error)
        /\ MatchesAlphaPlus(entry.word)
        /\ MatchesAlphaPlus(entry.error)

\* C6 amended: a token isValidTest() accepts has a non-empty error within one
\* edit of its word; the error matches ^[a-zA-Z]+$ and the word holds ASCII
\* letters only, but may be empty.
C6_ValidTestShape ==
    valid = "True" =>
        /\ entry.error # <<>>
        /\ WithinOneEdit(entry.word, entry.error)
        /\ MatchesAlphaStar(entry.word)
        /\ MatchesAlphaPlus(entry.error)

\* isValidTest() has accepted a token whose word is empty
C6_Witness == valid = "True" /\ entry.word = <<>> /\ entry.error # <<>>

-----------------------------------------------------------------------------
(* Properties of group_n_words (SpecGroup).                                *)

RECURSIVE JoinSpace(_)
JoinSpace(ws) ==
    IF ws = <<>> THEN <<>>
    ELSE IF Len(ws) = 1 THEN ws[1]
    ELSE ws[1] \o <<" ">> \o JoinSpace(Tail(ws))

\* the window of nn word forms that starts at 0-based offset k
Window(sent, nn, k) == JoinSpace([m \in 1..nn |-> WordForm(sent[k + m])])

\* C7 as stated: for n >= 1 and len(seq) >= n the result holds len(seq) - n + 1
\* groups, the k-th the space-joined word forms of elements k..k+n-1 (for n = 1,
\* the per-element word list).
C7_AsStated ==
    (output.done /\ n >= 1 /\ Len(sentence) >= n) =>
        /\ Len(output.val) = Len(sentence) - n + 1
        /\ \A k \in 0..(Len(sentence) - n) :
               k + 1 <= Len(output.val) /\ output.val[k + 1] = Window(sentence, n, k)

-----------------------------------------------------------------------------
(* Properties of process_line (SpecParse).                                 *)

\* the chunk is target=W> for a non-empty alphabetic W
IsTargetChunk(c) ==
    /\ Len(c) >= Len(TARGET_EQ) + 2
    /\ SubSeq(c, 1, Len(TARGET_EQ)) = TARGET_EQ
    /\ c[Len(c)] = ">"
    /\ MatchesAlphaPlus(SubSeq(c, Len(TARGET_EQ) + 1, Len(c) - 1))

TargetWord(c) == SubSeq(c, Len(TARGET_EQ) + 1, Len(c) - 1)

Cased(w, lowered) == IF lowered THEN Lower(w) ELSE w

\* The reading of a line that C2 describes: the line is a sequence of plain
\* (non-empty alphabetic) words and of blocks <err target=W> E </err>; toks is
\* one entry per word and one entry (W, E) per block, in lower case if lowered.
RECURSIVE C2Reading(_, _)
C2Reading(chunks, lowered) ==
    IF chunks = <<>> THEN [ok |-> TRUE, toks |-> <<>>]
    ELSE IF MatchesAlphaPlus(Head(chunks))
    THEN LET rest == C2Reading(Tail(chunks), lowered)
         IN  [ok |-> rest.ok,
              toks |-> <<LexicalEntry(Cased(Head(chunks), lowered), <<>>)>> \o rest.toks]
    ELSE IF /\ Len(chunks) >= 4
            /\ chunks[1] = ERR_OPEN
            /\ IsTargetChunk(chunks[2])
            /\ MatchesAlphaPlus(chunks[3])
            /\ chunks[4] = ERR_CLOSE
    THEN LET rest == C2Reading(SubSeq(chunks, 5, Len(chunks)), lowered)
         IN  [ok |-> rest.ok,
              toks |-> <<LexicalEntry(Cased(TargetWord(chunks[2]), lowered),
                                      Cased(chunks[3], lowered))>> \o rest.toks]
    ELSE [ok |-> FALSE, toks |-> <<>>]

C2Holds(lowered) ==
    LET r == C2Reading(line, lowered)
    IN  (line # <<>> /\ r.ok) =>
            /\ pc # "raised"
            /\ pc = "done" =>
                  /\ returned = "Sentence"
                  /\ processed_tokens = <<LexicalEntry(START_SYM, <<>>)>> \o r.toks
                                        \o <<LexicalEntry(END_SYM, <<>>)>>

\* C2 as stated: a line of plain words and blocks <err target=W> E </err> yields
\* <s>, one error-free token per plain word, one token (word = W, error = E) per
\* block, </s>, and nothing else.
C2_AsStated == C2Holds(FALSE)

\* C2 amended: the same, with every word, W and E taken in lower case.
C2_LowercasedSentence == C2Holds(TRUE)

\* a line with an upper-case letter, a plain word and a block has been parsed
C2_Witness ==
    /\ pc = "done" /\ returned = "Sentence"
    /\ C2Reading(line, TRUE).ok
    /\ line # [k \in 1..Len(line) |-> Lower(line[k])]
    /\ \E k \in 1..Len(processed_tokens) : processed_tokens[k].error # <<>>
    /\ \E k \in 1..Len(line) : MatchesAlphaPlus(line[k]) /\ (k = 1 \/ line[k - 1] = ERR_CLOSE)

\* the scan stands on '<err', the correct phrase can be recovered from the next
\* token and has at most two words
C3Case ==
    /\ pc = "loop" /\ i < Len(tokens) /\ At(tokens, i) = ERR_OPEN
    /\ i + 1 < Len(tokens)
    /\ Len(SplitOn(At(tokens, i + 1), "=")) >= 2
    /\ Len(SplitWhitespace(CorrectToken(At(tokens, i + 1)))) <= 2

\* C3 as stated (read on lines that hold the tokens it names, tokens[i+2] and
\* tokens[i+3]): if tokens[i+3] is '</err>', one token with the correct phrase
\* and no error is emitted; otherwise one token pairing the correct phrase with
\* tokens[i+2] as its error.
C3_AsStated ==
    [][(C3Case /\ i + 3 < Len(tokens)) =>
         IF At(tokens, i + 3) = ERR_CLOSE
         THEN processed_tokens' = Append(processed_tokens,
                  LexicalEntry(CorrectToken(At(tokens, i + 1)), <<>>))
         ELSE processed_tokens' = Append(processed_tokens,
                  LexicalEntry(CorrectToken(At(tokens, i + 1)), At(tokens, i + 2)))]_vars

\* C3 amended: if tokens[i+3] is '</err>', one token pairing the correct phrase
\* with tokens[i+2] as its error is emitted; if tokens[i+3] is another token,
\* one token with the correct phrase and no error; if the line has no token at
\* i+3, process_line raises IndexError and emits nothing.
C3_ErrorFormWhenClosedAtThree ==
    [][C3Case =>
         IF i + 3 < Len(tokens) /\ At(tokens, i + 3) = ERR_CLOSE
         THEN processed_tokens' = Append(processed_tokens,
                  LexicalEntry(CorrectToken(At(tokens, i + 1)), At(tokens, i + 2)))
         ELSE IF i + 3 < Len(tokens)
         THEN processed_tokens' = Append(processed_tokens,
                  LexicalEntry(CorrectToken(At(tokens, i + 1)), <<>>))
         ELSE /\ returned' = "IndexError"
              /\ processed_tokens' = processed_tokens]_vars

\* an annotation closed at i+3 has been scanned and its token carries tokens[i+2]
C3_Witness ==
    /\ pc = "loop" /\ i >= 4
    /\ At(tokens, i - 4) = ERR_OPEN /\ At(tokens, i - 1) = ERR_CLOSE
    /\ processed_tokens[Len(processed_tokens)] =
           LexicalEntry(CorrectToken(At(tokens, i - 3)), At(tokens, i - 2))
    /\ At(tokens, i - 2) # <<>>

\* tokens[k] opens a block <err target=W1 W2 ... Wm> ... </err> with m > 2 words;
\* last is the index of the token Wm>
IsMultiWordBlock(toks, k, last) ==
    /\ At(toks, k) = ERR_OPEN
    /\ last - k > 2 /\ last < Len(toks)
    /\ Len(At(toks, k + 1)) > Len(TARGET_EQ)
    /\ SubSeq(At(toks, k + 1), 1, Len(TARGET_EQ)) = TARGET_EQ
    /\ MatchesAlphaPlus(SubSeq(At(toks, k + 1), Len(TARGET_EQ) + 1, Len(At(toks, k + 1))))
    /\ \A m \in (k + 2)..(last - 1) : MatchesAlphaPlus(At(toks, m))
    /\ Len(At(toks, last)) >= 2 /\ At(toks, last)[Len(At(toks, last))] = ">"
    /\ MatchesAlphaPlus(PySliceTo(At(toks, last), -1))
    /\ HasClose(toks, last)

\* the words W1 .. Wm of the block
MultiWords(toks, k, last) ==
    [m \in 1..(last - k) |->
        IF m = 1 THEN SubSeq(At(toks, k + 1), Len(TARGET_EQ) + 1, Len(At(toks, k + 1)))
        ELSE IF k + m = last THEN PySliceTo(At(toks, last), -1)
        ELSE At(toks, k + m)]

\* C4 as stated: a block whose target has k > 2 words makes process_line emit
\* the k words in order, each with no error, and resume after the block's </err>.
C4_AsStated ==
    [][\A last \in 0..Len(tokens) :
         (pc = "loop" /\ i < Len(tokens) /\ IsMultiWordBlock(tokens, i, last)) =>
            /\ processed_tokens' = processed_tokens \o
                   [m \in 1..(last - i) |-> LexicalEntry(MultiWords(tokens, i, last)[m], <<>>)]
            /\ i' = i + CloseOffset(tokens, i) + 1
            /\ pc' = "loop"]_vars

\* the scan stands on a block <err target=W> </err> that gives no error form
C8Case ==
    /\ pc = "loop" /\ i + 2 < Len(tokens)
    /\ At(tokens, i) = ERR_OPEN
    /\ IsTargetChunk(At(tokens, i + 1))
    /\ At(tokens, i + 2) = ERR_CLOSE

\* C8 as stated: a block without an error form makes process_line emit one token
\* (W, no error) and carry on to return a Sentence, also when its </err> ends the
\* line.
C8_AsStated ==
    [][C8Case =>
         /\ processed_tokens' = Append(processed_tokens,
                LexicalEntry(TargetWord(At(tokens, i + 1)), <<>>))
         /\ i' = i + 3
         /\ pc' = "loop"]_vars

-----------------------------------------------------------------------------
(* Properties of generate_test_cases (SpecCorpus).                         *)

CurrentStore == Store(heap, sents, testCases)

\* the positions (m, k) of the corpus, sentence by sentence and index by index,
\* whose entry has an error and is a valid test
RECURSIVE EligiblePositions(_, _)
EligiblePositions(m, k) ==
    IF m > Len(corpus) THEN <<>>
    ELSE IF k >= Len(Data(CurrentStore, corpus[m])) THEN EligiblePositions(m + 1, 0)
    ELSE LET e == Data(CurrentStore, corpus[m])[k + 1]
         IN  (IF hasError(e) /\ isValidTest(e) THEN << <<m, k>> >> ELSE <<>>)
             \o EligiblePositions(m, k + 1)

\* T is the test case of S at index k that C1 describes
IsTestCaseOf(T, S, k) ==
    /\ Len(T) = Len(S)
    /\ {m \in 1..Len(T) : hasError(T[m])} = {k + 1}
    /\ \A m \in 1..Len(T) : m # k + 1 => T[m] = fixError(S[m])
    /\ T[k + 1] = S[k + 1]
    /\ isValidTest(S[k + 1])

\* C1: generate_test_cases() returns one Sentence per eligible error position,
\* in corpus order; the one derived from sentence S at index i has the length of
\* S, carries an error at index i only, equals S.clean_sentence() elsewhere, and
\* holds S.get(i), a valid test, at i.
C1_OneErrorPerTestCase ==
    ret.kind = "testCases" =>
        LET pos == EligiblePositions(1, 0)
        IN  /\ Len(testCases) = Len(pos)
            /\ \A j \in 1..Len(pos) :
                  j <= Len(testCases) /\
                  IsTestCaseOf(Data(CurrentStore, testCases[j]),
                               Data(CurrentStore, corpus[pos[j][1]]), pos[j][2])

\* test cases have been returned for a sentence with two eligible errors
C1_Witness ==
    /\ ret.kind = "testCases"
    /\ Len(testCases) >= 2
    /\ \E m \in 1..Len(corpus) :
          Cardinality({k \in 1..Len(Data(CurrentStore, corpus[m])) :
                          isValidTest(Data(CurrentStore, corpus[m])[k])}) >= 2

-----------------------------------------------------------------------------
(* Properties of Sentence (Spec).                                          *)

SentenceIds == 1..Len(sents)
LenOf(s)    == Len(heap[sents[s].data])

\* get(k) or update(k, e) on Sentence s has failed: IndexError, no entry
\* returned, no list changed
FailsWithIndexError == ret'.kind = "IndexError" /\ ret'.val = NoEntry /\ heap' = heap

\* C5 as stated: for every i outside 0 <= i < L, negative i included, get(i)
\* and update(i, token) fail with IndexError, return no token and leave the
\* sentence unchanged.
C5_AsStated ==
    [][\A s \in SentenceIds, k \in Indexes :
         ~(0 <= k /\ k < LenOf(s)) =>
            /\ GetCall(s, k) => FailsWithIndexError
            /\ UpdateCall(s, k, CallEntry) => FailsWithIndexError]_vars

\* C5 amended: for every i with i >= L or i < -L, get(i) and update(i, token)
\* fail with IndexError, return no token and leave the sentence unchanged; for
\* -L <= i < 0 they do not fail: they read, or replace, the token at index L + i.
C5_IndexErrorOutsidePythonRange ==
    [][\A s \in SentenceIds, k \in Indexes :
         IF k >= LenOf(s) \/ k < -LenOf(s)
         THEN /\ GetCall(s, k) => FailsWithIndexError
              /\ UpdateCall(s, k, CallEntry) => FailsWithIndexError
         ELSE IF k < 0
         THEN /\ GetCall(s, k) =>
                    /\ ret'.kind = "entry"
                    /\ ret'.val = heap[sents[s].data][LenOf(s) + k + 1]
                    /\ heap' = heap
              /\ UpdateCall(s, k, CallEntry) =>
                    /\ ret'.kind = "None"
                    /\ heap' = [heap EXCEPT ![sents[s].data][LenOf(s) + k + 1] = CallEntry]
         ELSE TRUE]_vars

\* a call with a negative index has failed with IndexError
C5_Witness == ret.kind = "IndexError" /\ ret.neg /\ nops > 0

\* the tokens of every Sentence other than s are what they were
OthersUnchanged(s) ==
    \A s2 \in SentenceIds : s2 # s => heap'[sents'[s2].data] = heap[sents[s2].data]

\* C9: an update or append on one Sentence leaves the tokens (hence the length)
\* of every other Sentence unchanged, whether it was constructed from that one,
\* the other way round, or is another test case; generate_test_cases() leaves
\* every Sentence that exists unchanged.
C9_SeparateTokenSequences ==
    [][/\ \A s \in SentenceIds :
            /\ \A k \in Indexes : UpdateCall(s, k, CallEntry) => OthersUnchanged(s)
            /\ AppendCall(s, CallEntry) => OthersUnchanged(s)
       /\ GenerateTestCases =>
            \A s \in SentenceIds : heap'[sents'[s].data] = heap[sents[s].data]]_vars

\* a Sentence constructed from another one by a call has been changed, and the
\* two differ
C9_Witness ==
    \E s \in SentenceIds :
        /\ sents[s].src # 0
        /\ \A j \in 1..Len(testCases) : testCases[j] # s
        /\ ret.kind = "None"
        /\ heap[sents[s].data] # heap[sents[sents[s].src].data]

=============================================================================
